---------------------------- MODULE Spec2Model ----------------------------
(***************************************************************************)
(* Model of libwasi/genvfs.py, the generator that reads wasi_vfs.def and   *)
(* writes wasi_vfs_ops.h, wasi_vfs.h and wasi_vfs_dispatch.h.              *)
(*                                                                         *)
(* Text is a sequence of one-character strings, so that split, strip and   *)
(* the two regular expressions are computed character by character.  A     *)
(* printed line is a record: k names the print statement of the source     *)
(* (its fixed template), fn, a and b are the texts substituted into it.    *)
(***************************************************************************)
EXTENDS Integers, Sequences, FiniteSets, TLC

VARIABLES content, lines, files, prev, pc, run

vars == <<content, lines, files, prev, pc, run>>

-----------------------------------------------------------------------------
(* Character classes and string primitives (Python str methods).           *)

Lower == {"a","b","c","d","e","f","g","h","i","j","k","l","m",
          "n","o","p","q","r","s","t","u","v","w","x","y","z"}

Digit == {"0","1","2","3","4","5","6","7","8","9"}

\* [_a-z0-9]
NameRest == Lower \cup Digit \cup {"_"}

\* the ASCII characters str.strip() removes
Whitespace == {" ", "\t", "\n", "\r", "\f"}

Empty == <<>>

Tail_(s, i) == SubSeq(s, i, Len(s))

\* index of the first occurrence of character c in s, 0 when there is none
IndexOf(s, c) ==
    IF \E i \in 1..Len(s) : s[i] = c
    THEN CHOOSE i \in 1..Len(s) : s[i] = c /\ \A j \in 1..(i-1) : s[j] # c
    ELSE 0

\* str.replace(c, "")
Remove(s, c) == SelectSeq(s, LAMBDA x : x # c)

\* str.split(c) for a one-character separator
RECURSIVE Split(_, _)
Split(s, c) ==
    LET i == IndexOf(s, c)
    IN  IF i = 0 THEN <<s>>
        ELSE <<SubSeq(s, 1, i-1)>> \o Split(Tail_(s, i+1), c)

\* str.strip()
Strip(s) ==
    IF \A i \in 1..Len(s) : s[i] \in Whitespace THEN Empty
    ELSE LET lo == CHOOSE i \in 1..Len(s) :
                      s[i] \notin Whitespace /\ \A j \in 1..(i-1) : s[j] \in Whitespace
             hi == CHOOSE i \in 1..Len(s) :
                      s[i] \notin Whitespace /\ \A j \in (i+1)..Len(s) : s[j] \in Whitespace
         IN  SubSeq(s, lo, hi)

\* ', '.join(parts)
RECURSIVE Join(_)
Join(parts) ==
    IF Len(parts) = 0 THEN Empty
    ELSE IF Len(parts) = 1 THEN parts[1]
    ELSE parts[1] \o <<",", " ">> \o Join(Tail(parts))

\* startswith with the last character of the prefix left out
StartsWithShort(s, p) ==
    Len(s) >= Len(p) - 1 /\ SubSeq(s, 1, Len(p) - 1) = SubSeq(p, 1, Len(p) - 1)

\* str.startswith(p)
StartsWith(s, p) == Len(s) >= Len(p) /\ SubSeq(s, 1, Len(p)) = p

-----------------------------------------------------------------------------
(* The regular expressions.  The texts searched never hold a line break    *)
(* (it is removed from content before the split), so $ is the end of text. *)

\* '[a-z][_a-z0-9]*$' matched at position i
NameAt(a, i) ==
    /\ i \in 1..Len(a)
    /\ a[i] \in Lower
    /\ \A j \in (i+1)..Len(a) : a[j] \in NameRest

\* re_name.search(a): start of the leftmost match, 0 for None
re_name(a) ==
    IF \E i \in 1..Len(a) : NameAt(a, i)
    THEN CHOOSE i \in 1..Len(a) : NameAt(a, i) /\ \A j \in 1..(i-1) : ~NameAt(a, j)
    ELSE 0

\* the literal 'struct path_info \*'
PathInfoLit == <<"s","t","r","u","c","t"," ","p","a","t","h","_","i","n","f","o"," ","*">>

PathInfoAt(a, i) ==
    /\ i \in 1..Len(a)
    /\ i + Len(PathInfoLit) - 1 <= Len(a)
    /\ SubSeq(a, i, i + Len(PathInfoLit) - 1) = PathInfoLit
    /\ NameAt(a, i + Len(PathInfoLit))

\* re_path_info.search(a): start of group 1 of the leftmost match, 0 for None
re_path_info(a) ==
    IF \E i \in 1..Len(a) : PathInfoAt(a, i)
    THEN Len(PathInfoLit) +
         (CHOOSE i \in 1..Len(a) : PathInfoAt(a, i) /\ \A j \in 1..(i-1) : ~PathInfoAt(a, j))
    ELSE 0

-----------------------------------------------------------------------------
(* Module constants.                                                       *)

Mode == {"VfsPrototype", "VfsStructDecl", "VfsStructDefine", "VfsDefine"}

\* the default arguments of process()
DefaultPrefix == <<"w","a","s","i","_","v","f","s","_">>

DefaultQual == <<"s","t","a","t","i","c"," ","c","o","n","s","t">>

PathPrefix == <<"p","a","t","h","_">>

OutputFiles == {"wasi_vfs_ops.h", "wasi_vfs.h", "wasi_vfs_dispatch.h"}

\* one print() call: template k with its substitutions
Ln(k, fn, a, b) == [k |-> k, fn |-> fn, a |-> a, b |-> b]

-----------------------------------------------------------------------------
(* process(): the parse of one statement.                                  *)

\* the fragments as split, not trimmed
args_sig_untrimmed(args) == args

\* lines 37-40: the trimmed fragments
args_sig(args) == [i \in 1..Len(args) |-> Strip(args[i])]

\* lines 41-45: m.group() raises AttributeError when some fragment has no match
args_name_ok(args) == \A i \in 1..Len(args) : re_name(Strip(args[i])) # 0

\* the whole trimmed fragment instead of its trailing identifier
args_name_whole(args) == [i \in 1..Len(args) |-> Strip(args[i])]

\* lines 41-45: the trailing identifier of each trimmed fragment
args_name(args) ==
    [i \in 1..Len(args) |-> Tail_(Strip(args[i]), re_name(Strip(args[i])))]

\* lines 46-50: group 1 of each fragment (as split, not trimmed) that matches
RECURSIVE path_info_arg(_)
path_info_arg(args) ==
    IF Len(args) = 0 THEN <<>>
    ELSE LET m == re_path_info(Head(args))
         IN  (IF m # 0 THEN <<Tail_(Head(args), m)>> ELSE <<>>)
             \o path_info_arg(Tail(args))

\* lines 62-65: one guard, three prints, per path-info argument after the first
RECURSIVE Guards(_, _)
Guards(ref, rest) ==
    IF Len(rest) = 0 THEN <<>>
    ELSE << Ln("guard_if", Empty, ref, Head(rest)),
            Ln("guard_return", Empty, Empty, Empty),
            Ln("guard_end", Empty, Empty, Empty) >>
         \o Guards(ref, Tail(rest))

\* the VfsDefine branch with path_info_arg[0] evaluated before the function
\* header is printed, and the fdinfo lookup otherwise
EmitDefineRaiseFirst(fn, args) ==
    LET head == << Ln("fn_head", fn, Join(args_sig(args)), Empty),
                   Ln("brace_open", Empty, Empty, Empty) >>
        pia  == path_info_arg(args)
        tail == << Ln("return_call", fn, Join(args_name(args)), Empty),
                   Ln("brace_close", Empty, Empty, Empty) >>
    IN  IF StartsWith(fn, PathPrefix)
        THEN IF Len(pia) = 0
             THEN [out |-> <<>>, ok |-> FALSE]
             ELSE [out |-> head \o Guards(pia[1], Tail(pia))
                           \o << Ln("path_vfs_ops", Empty, pia[1], Empty) >> \o tail,
                   ok  |-> TRUE]
        ELSE [out |-> head \o << Ln("fdinfo_vfs_ops", Empty, Empty, Empty) >> \o tail,
              ok  |-> TRUE]

\* lines 58-70: the VfsDefine branch; path_info_arg[0] raises IndexError on an
\* empty list, after the function header and the brace are printed
EmitDefine(fn, args) ==
    LET head == << Ln("fn_head", fn, Join(args_sig(args)), Empty),
                   Ln("brace_open", Empty, Empty, Empty) >>
        pia  == path_info_arg(args)
        tail == << Ln("return_call", fn, Join(args_name(args)), Empty),
                   Ln("brace_close", Empty, Empty, Empty) >>
    IN  IF StartsWith(fn, PathPrefix)
        THEN IF Len(pia) = 0
             THEN [out |-> head, ok |-> FALSE]
             ELSE [out |-> head \o Guards(pia[1], Tail(pia))
                           \o << Ln("path_vfs_ops", Empty, pia[1], Empty) >> \o tail,
                   ok  |-> TRUE]
        ELSE [out |-> head \o << Ln("fdinfo_vfs_ops", Empty, Empty, Empty) >> \o tail,
              ok  |-> TRUE]

\* lines 52-70: what one signature prints in the given mode
EmitMode(mode, prefix, fn, args) ==
    CASE mode = "VfsStructDecl" ->
            [out |-> << Ln("member", fn, Join(args_sig(args)), Empty) >>, ok |-> TRUE]
      [] mode = "VfsStructDefine" ->
            [out |-> << Ln("init", fn, Empty, prefix) >>, ok |-> TRUE]
      [] mode = "VfsPrototype" ->
            [out |-> << Ln("proto", fn, Join(args_sig(args)), prefix) >>, ok |-> TRUE]
      [] mode = "VfsDefine" -> EmitDefine(fn, args)

Raise == [out |-> <<>>, ok |-> FALSE]

\* lines 32-70: one iteration of the loop over lines.  The unpacking
\* assignments of lines 35 and 36 raise ValueError unless split gives two parts.
EmitLine(mode, prefix, ln) ==
    LET line == Strip(ln)
        p    == Split(line, ")")
        q    == Split(p[1], "(")
    IN  IF line = Empty THEN [out |-> <<>>, ok |-> TRUE]
        ELSE IF Len(p) # 2 THEN Raise
        ELSE IF Len(q) # 2 THEN Raise
        ELSE LET fn   == q[1]
                 args == Split(q[2], ",")
             IN  IF ~args_name_ok(args) THEN Raise
                 ELSE EmitMode(mode, prefix, fn, args)

\* lines 31-70: the loop, left at the first exception
RECURSIVE EmitLines(_, _, _)
EmitLines(mode, prefix, ls) ==
    IF Len(ls) = 0 THEN [out |-> <<>>, ok |-> TRUE]
    ELSE LET r == EmitLine(mode, prefix, Head(ls))
         IN  IF ~r.ok THEN r
             ELSE LET rest == EmitLines(mode, prefix, Tail(ls))
                  IN  [out |-> r.out \o rest.out, ok |-> rest.ok]

\* lines 25-30
Header(mode, prefix, qual) ==
    << Ln("notice", Empty, Empty, Empty), Ln("include", Empty, Empty, Empty) >>
    \o (IF mode = "VfsStructDecl" THEN << Ln("struct_open", Empty, Empty, Empty) >> ELSE <<>>)
    \o (IF mode = "VfsStructDefine" THEN << Ln("init_open", Empty, qual, prefix) >> ELSE <<>>)

\* lines 71-74
Footer(mode) ==
    IF mode \in {"VfsStructDecl", "VfsStructDefine"}
    THEN << Ln("struct_close", Empty, Empty, Empty) >> ELSE <<>>

\* lines 24-74: everything process(mode, out, prefix, qual) prints to out, and
\* whether it returned (ok) or raised
process(mode, prefix, qual) ==
    LET body == EmitLines(mode, prefix, lines)
    IN  [out |-> Header(mode, prefix, qual) \o body.out
                 \o (IF body.ok THEN Footer(mode) ELSE <<>>),
         ok  |-> body.ok]

-----------------------------------------------------------------------------
(* The script: read the definition file, then three emissions.             *)

\* the split with its last part dropped, as if every statement ended in ";"
ReadLinesDropLast(text) ==
    LET l == Split(Remove(text, "\n"), ";") IN SubSeq(l, 1, Len(l) - 1)

\* lines 21-22
ReadLines(text) == Split(Remove(text, "\n"), ";")

\* open(name, "a"): the file exists and keeps what it held
OpenAppend(old) == [exists |-> TRUE, data |-> old.data]

\* open(name, "w"): the file exists and is empty
OpenW(old) == [exists |-> TRUE, data |-> <<>>]

\* lines 76-83: with open(name, "w") as fp: process(mode, fp).  The file is
\* closed, and so flushed, when process returns and when it raises alike; an
\* exception ends the script.
WithOpen(name, mode, next) ==
    LET r == process(mode, DefaultPrefix, DefaultQual)
        f == OpenW(files[name])
    IN  /\ files' = [files EXCEPT ![name] = [f EXCEPT !.data = f.data \o r.out]]
        /\ pc' = IF r.ok THEN next ELSE "failed"

-----------------------------------------------------------------------------
(* Definition files the generator is run on.                               *)

MaxArgs == 3

MaxStmts == 3

MaxRuns == 2

SeqsUpTo(S, n) == UNION {[1..k -> S] : k \in 1..n}

Names == { <<"p","a","t","h","_","l","i","n","k">>,
           <<"f","d","_","c","l","o","s","e">>,
           <<"p","a","t","h","c","o","n","f">> }

\* argument fragments as they stand between the commas
Fragments == { <<"s","t","r","u","c","t"," ","p","a","t","h","_","i","n","f","o"," ","*","o">>,
               <<" ","s","t","r","u","c","t"," ","p","a","t","h","_","i","n","f","o"," ","*","n">>,
               <<"s","t","r","u","c","t"," ","p","a","t","h","_","i","n","f","o"," ","*","d"," ">>,
               <<"i","n","t"," "," ","f","d","i","n","f","o">>,
               <<"i","n","t"," ","*">>,
               Empty }

RECURSIVE JoinWith(_, _)
JoinWith(parts, sep) ==
    IF Len(parts) = 0 THEN Empty
    ELSE IF Len(parts) = 1 THEN parts[1]
    ELSE parts[1] \o sep \o JoinWith(Tail(parts), sep)

Statement(name, frags) == name \o <<"(">> \o JoinWith(frags, <<",">>) \o <<")">>

\* one statement, any name over any fragments, ended by ";" and a line break
SigFiles ==
    { Statement(n, fs) \o <<";", "\n">> : n \in Names, fs \in SeqsUpTo(Fragments, MaxArgs) }

\* statements of the files of several statements
StmtPool == { <<"f","d","_","c","l","o","s","e","(","i","n","t"," ","f","d","i","n","f","o",")">>,
              <<"\n","p","a","t","h","_","l","i","n","k","(","s","t","r","u","c","t"," ","p","a","t","h","_","i","n","f","o"," ","*","o",",","\n","\t","s","t","r","u","c","t"," ","p","a","t","h","_","i","n","f","o"," ","*","n",")">>,
              <<"p","a","t","h","_","s","t","a","t","(","i","n","t"," ","f","d","i","n","f","o",")">>,
              <<"b","a","d","_","s","t","m","t","_","n","o","_","p","a","r","e","n","s">>,
              <<"f","d","_","r","e","a","d","(","i","n","t"," ","f","d","i","n","f","o",","," ","i","n","t"," ","*",")">>,
              <<" ","\n">>,
              <<"f","d","_","s","y","n","c"," ","(","i","n","t"," ","f","d","i","n","f","o",")",")">> }

\* up to MaxStmts statements separated by ";"
StmtFiles == { JoinWith(ss, <<";">>) : ss \in SeqsUpTo(StmtPool, MaxStmts) }

DefFiles == {Empty} \cup SigFiles \cup StmtFiles

-----------------------------------------------------------------------------
(* State machine.  pc is the position in the script; files is the working  *)
(* directory; prev is the working directory as the previous run left it.   *)

NoFile == [exists |-> FALSE, data |-> <<>>]

Init ==
    /\ content \in DefFiles
    /\ lines = <<>>
    /\ files = [n \in OutputFiles |-> NoFile]
    /\ prev = [n \in OutputFiles |-> NoFile]
    /\ pc = "read"
    /\ run = 1

\* lines 19-22
ReadDef ==
    /\ pc = "read"
    /\ lines' = ReadLines(content)
    /\ pc' = "ops"
    /\ UNCHANGED <<content, files, prev, run>>

\* lines 76-77
EmitOps ==
    /\ pc = "ops"
    /\ WithOpen("wasi_vfs_ops.h", "VfsStructDecl", "proto")
    /\ UNCHANGED <<content, lines, prev, run>>

\* lines 79-80
EmitProto ==
    /\ pc = "proto"
    /\ WithOpen("wasi_vfs.h", "VfsPrototype", "dispatch")
    /\ UNCHANGED <<content, lines, prev, run>>

\* lines 82-83
EmitDispatch ==
    /\ pc = "dispatch"
    /\ WithOpen("wasi_vfs_dispatch.h", "VfsDefine", "done")
    /\ UNCHANGED <<content, lines, prev, run>>

\* the generator is started again on the unchanged definition file
Rerun ==
    /\ pc \in {"done", "failed"}
    /\ run < MaxRuns
    /\ run' = run + 1
    /\ prev' = files
    /\ lines' = <<>>
    /\ pc' = "read"
    /\ UNCHANGED <<content, files>>

Next == ReadDef \/ EmitOps \/ EmitProto \/ EmitDispatch \/ Rerun

Spec == Init /\ [][Next]_vars

-----------------------------------------------------------------------------
(* What the definition file says, read off content independently of        *)
(* process(): its statements, their names, fragments and identifiers.      *)

Count(s, c) == Cardinality({i \in 1..Len(s) : s[i] = c})

\* s without its leading and trailing whitespace
Trimmed(s) ==
    LET black == {i \in 1..Len(s) : s[i] \notin Whitespace}
    IN  IF black = {} THEN Empty
        ELSE SubSeq(s, CHOOSE i \in black : \A x \in black : i <= x,
                       CHOOSE j \in black : \A x \in black : x <= j)

\* the semicolon-delimited statements of the input without its line breaks
Chunks == Split(SelectSeq(content, LAMBDA c : c # "\n"), ";")

\* those that are non-empty after trimming, trimmed, in file order
Stmts ==
    LET ch == Chunks
    IN  SelectSeq([i \in 1..Len(ch) |-> Trimmed(ch[i])], LAMBDA t : t # Empty)

NumStmts == Len(Stmts)

IsIdent(t) == Len(t) >= 1 /\ t[1] \in Lower /\ \A j \in 2..Len(t) : t[j] \in NameRest

Suffixes(t) == {SubSeq(t, i, Len(t)) : i \in 1..Len(t)}

HasTrailingIdent(t) == \E u \in Suffixes(t) : IsIdent(u)

\* the longest suffix of t that is an identifier
TrailingIdent(t) ==
    CHOOSE u \in Suffixes(t) :
        IsIdent(u) /\ \A w \in Suffixes(t) : IsIdent(w) => Len(w) <= Len(u)

\* t holds 'struct path_info *' directly followed by an identifier that ends t
IsPathInfo(t) == \E u \in Suffixes(t) :
    /\ Len(u) > Len(PathInfoLit)
    /\ SubSeq(u, 1, Len(PathInfoLit)) = PathInfoLit
    /\ IsIdent(SubSeq(u, Len(PathInfoLit) + 1, Len(u)))

SName(st) == SubSeq(st, 1, IndexOf(st, "(") - 1)

\* the text between the parentheses, as written
SArgText(st) == SubSeq(st, IndexOf(st, "(") + 1, IndexOf(st, ")") - 1)

\* the comma-separated fragments, as written
SRawFrags(st) == Split(SArgText(st), ",")

SFrags(st) ==
    LET raw == SRawFrags(st)
    IN  [i \in 1..Len(raw) |-> Trimmed(raw[i])]

SIdents(st) ==
    LET fr == SFrags(st)
    IN  [i \in 1..Len(fr) |-> TrailingIdent(fr[i])]

\* identifiers of the path-info arguments of st, in declaration order
SPathInfoIdents(st) ==
    LET pis == SelectSeq(SFrags(st), IsPathInfo)
    IN  [i \in 1..Len(pis) |-> TrailingIdent(pis[i])]

IsPathName(st) == Len(SName(st)) >= 5 /\ SubSeq(SName(st), 1, 5) = <<"p","a","t","h","_">>

\* the statement has the name(args) shape and every fragment ends in an identifier
ParsesOk(st) ==
    /\ Count(st, ")") = 1
    /\ Count(SubSeq(st, 1, IndexOf(st, ")") - 1), "(") = 1
    /\ LET fr == SFrags(st)
       IN  \A i \in 1..Len(fr) : HasTrailingIdent(fr[i])

WellFormed ==
    LET ss == Stmts
    IN  \A i \in 1..Len(ss) : ParsesOk(ss[i])

\* a path_ statement none of whose fragments, as written, matches the pattern
LacksPathInfo(st) ==
    /\ IsPathName(st)
    /\ LET raw == SRawFrags(st)
       IN  \A i \in 1..Len(raw) : ~IsPathInfo(raw[i])

-----------------------------------------------------------------------------
(* What the output files hold.                                             *)

OpsH == files["wasi_vfs_ops.h"]

VfsH == files["wasi_vfs.h"]

DispatchH == files["wasi_vfs_dispatch.h"]

Kinds(d) == [i \in 1..Len(d) |-> d[i].k]

OfKind(d, k) == SelectSeq(d, LAMBDA r : r.k = k)

\* the names of the entries of kind k, in file order
EntryNames(d, k) ==
    LET es == OfKind(d, k)
    IN  [i \in 1..Len(es) |-> es[i].fn]

IsPrefixOf(p, q) == Len(p) <= Len(q) /\ SubSeq(q, 1, Len(p)) = p

NumBodies == Len(OfKind(DispatchH.data, "fn_head"))

\* position of the i-th function header of wasi_vfs_dispatch.h
HeadPos(i) ==
    CHOOSE p \in 1..Len(DispatchH.data) :
        /\ DispatchH.data[p].k = "fn_head"
        /\ Cardinality({q \in 1..p : DispatchH.data[q].k = "fn_head"}) = i

\* the i-th dispatch function: its header up to the next header or the end
Body(i) ==
    SubSeq(DispatchH.data, HeadPos(i),
           IF i < NumBodies THEN HeadPos(i + 1) - 1 ELSE Len(DispatchH.data))

Closed(b) == b[Len(b)].k = "brace_close"

GuardPairs(b) ==
    [i \in 1..Len(OfKind(b, "guard_if")) |->
        <<OfKind(b, "guard_if")[i].a, OfKind(b, "guard_if")[i].b>>]

Terminated == pc \in {"done", "failed"}

HeaderOk(d) == Len(d) >= 2 /\ d[1].k = "notice" /\ d[2].k = "include"

OpsComplete ==
    /\ OpsH.exists
    /\ HeaderOk(OpsH.data)
    /\ Len(OpsH.data) = NumStmts + 4
    /\ Kinds(OpsH.data)[3] = "struct_open"
    /\ Kinds(OpsH.data)[Len(OpsH.data)] = "struct_close"
    /\ Len(OfKind(OpsH.data, "member")) = NumStmts

ProtoComplete ==
    /\ VfsH.exists
    /\ HeaderOk(VfsH.data)
    /\ Len(VfsH.data) = NumStmts + 2
    /\ Len(OfKind(VfsH.data, "proto")) = NumStmts

DispatchComplete ==
    /\ DispatchH.exists
    /\ HeaderOk(DispatchH.data)
    /\ NumBodies = NumStmts
    /\ \A i \in 1..NumBodies : Closed(Body(i))

-----------------------------------------------------------------------------
(* Claims.                                                                 *)

\* C1: when some statement of the definition file fails to parse, the run
\* never completes and, in the first run on a clean directory, none of the
\* three output files has been created.
C1_NoOutputOnParseError ==
    ~WellFormed =>
        /\ pc # "done"
        /\ (run = 1 => \A n \in OutputFiles : ~files[n].exists)

\* C2: every terminated run leaves either all three output files complete or
\* none of them written at all.
C2_AllOrNothing ==
    Terminated =>
        \/ OpsComplete /\ ProtoComplete /\ DispatchComplete
        \/ \A n \in OutputFiles : ~files[n].exists

\* C3: the dispatch function of a path_ signature that declares n >= 2
\* path-info arguments (whatever whitespace surrounds the fragments) holds
\* exactly n-1 guards, check_xdev(first, j-th) for j = 2..n in declaration order.
C3_XdevGuards ==
    \A i \in 1..NumBodies :
        LET pis == SPathInfoIdents(Stmts[i])
        IN  (Closed(Body(i)) /\ IsPathName(Stmts[i]) /\ Len(pis) >= 2) =>
                GuardPairs(Body(i)) = [j \in 1..(Len(pis) - 1) |-> <<pis[1], pis[j + 1]>>]

\* the statements of a dispatch function after its header and opening brace
\* are guards (three prints each), then one lookup, one return, the brace
GuardsThenLookup(b, lookup) ==
    LET g == Len(OfKind(b, "guard_if"))
    IN  /\ Len(b) = 3 * g + 5
        /\ b[1].k = "fn_head" /\ b[2].k = "brace_open"
        /\ \A j \in 0..(g - 1) :
              /\ b[3 + 3 * j].k = "guard_if"
              /\ b[4 + 3 * j].k = "guard_return"
              /\ b[5 + 3 * j].k = "guard_end"
        /\ b[3 * g + 3].k = lookup
        /\ b[3 * g + 4].k = "return_call"
        /\ b[3 * g + 5].k = "brace_close"

\* C4: in the dispatch function of every path_ signature all guards come
\* first, then one path_vfs_ops(ref) lookup, then one return ops->name(...),
\* ref being the identifier of the first path-info argument and the first
\* operand of every guard.
C4_GuardsBeforeLookup ==
    \A i \in 1..NumBodies :
        LET b   == Body(i)
            pis == SPathInfoIdents(Stmts[i])
        IN  (Closed(b) /\ IsPathName(Stmts[i])) =>
                /\ GuardsThenLookup(b, "path_vfs_ops")
                /\ Len(pis) >= 1
                /\ OfKind(b, "path_vfs_ops")[1].a = pis[1]
                /\ \A j \in 1..Len(GuardPairs(b)) : GuardPairs(b)[j][1] = pis[1]

\* C5: the dispatch function of a signature whose name does not begin with
\* path_ looks its table up with fdinfo_vfs_ops(fdinfo) and holds no
\* check_xdev guard and no path_vfs_ops lookup, whatever its arguments are.
C5_FdLookupOnly ==
    \A i \in 1..NumBodies :
        ~IsPathName(Stmts[i]) =>
            /\ Len(OfKind(Body(i), "fdinfo_vfs_ops")) = 1
            /\ Len(OfKind(Body(i), "guard_if")) = 0
            /\ Len(OfKind(Body(i), "path_vfs_ops")) = 0

C5_Witness ==
    \E i \in 1..NumBodies :
        /\ ~IsPathName(Stmts[i])
        /\ Len(SPathInfoIdents(Stmts[i])) >= 2
        /\ Closed(Body(i))

\* C6: every complete dispatch function ends in return ops-><name>(...), the
\* member named as the signature, with one operand per fragment: the trailing
\* identifier of the i-th trimmed fragment, in declaration order.
C6_ForwardsIdentifiers ==
    \A i \in 1..NumBodies :
        LET b == Body(i)
        IN  Closed(b) =>
                /\ Len(OfKind(b, "return_call")) = 1
                /\ b[Len(b) - 1].k = "return_call"
                /\ b[Len(b) - 1].fn = SName(Stmts[i])
                /\ Count(b[Len(b) - 1].a, ",") = Len(SRawFrags(Stmts[i])) - 1
                /\ b[Len(b) - 1].a = JoinWith(SIdents(Stmts[i]), <<",", " ">>)

C6_Witness ==
    \E i \in 1..NumBodies :
        /\ Closed(Body(i))
        /\ Len(SRawFrags(Stmts[i])) >= 2
        /\ \E j \in 1..Len(SRawFrags(Stmts[i])) :
              /\ SRawFrags(Stmts[i])[j] # SFrags(Stmts[i])[j]
              /\ SIdents(Stmts[i])[j] # SFrags(Stmts[i])[j]

StmtNames ==
    LET ss == Stmts
    IN  [i \in 1..Len(ss) |-> SName(ss[i])]

EntryArgs(d, k) ==
    LET es == OfKind(d, k)
    IN  [i \in 1..Len(es) |-> es[i].a]

\* C8 as stated: the argument list of every struct member and prototype is the
\* argument text of the definition file, byte for byte.
C8_ArgsVerbatim ==
    LET ss      == Stmts
        members == EntryArgs(OpsH.data, "member")
        protos  == EntryArgs(VfsH.data, "proto")
    IN  WellFormed =>
            /\ \A i \in 1..Len(members) : members[i] = SArgText(ss[i])
            /\ \A i \in 1..Len(protos) : protos[i] = SArgText(ss[i])

\* text is the fragments of st in order, each without its surrounding
\* whitespace, separated by a comma and one space
IsNormalisedArgs(text, st) ==
    LET parts == Split(text, ",")
        raw   == SRawFrags(st)
    IN  /\ Len(parts) = Len(raw)
        /\ parts[1] = Trimmed(raw[1])
        /\ \A j \in 2..Len(parts) :
              /\ Len(parts[j]) >= 1
              /\ parts[j][1] = " "
              /\ Tail(parts[j]) = Trimmed(raw[j])

\* C8 as amended: the argument list of every struct member and prototype is
\* the fragments of the definition file in input order, each with its
\* surrounding whitespace removed and its inner text kept byte for byte,
\* joined by ", ".
C8_ArgsNormalised ==
    LET ss      == Stmts
        members == EntryArgs(OpsH.data, "member")
        protos  == EntryArgs(VfsH.data, "proto")
    IN  WellFormed =>
            /\ \A i \in 1..Len(members) : IsNormalisedArgs(members[i], ss[i])
            /\ \A i \in 1..Len(protos) : IsNormalisedArgs(protos[i], ss[i])

C8_Witness ==
    LET ss      == Stmts
        members == EntryArgs(OpsH.data, "member")
        protos  == EntryArgs(VfsH.data, "proto")
    IN  /\ WellFormed
        /\ \E i \in 1..Len(protos) :
              /\ Len(SRawFrags(ss[i])) >= 2
              /\ protos[i] # SArgText(ss[i])
              /\ members[i] = protos[i]

\* C9: a run of the generator on the unchanged definition file ends with the
\* three output files as the run before it left them, and no emission
\* changes the statement list.
C9_Idempotent ==
    /\ [](Terminated /\ run >= 2 => files = prev)
    /\ [][(pc \in {"ops", "proto", "dispatch"}) => (lines' = lines)]_vars

C9_Witness ==
    /\ pc = "done"
    /\ run >= 2
    /\ NumStmts >= 2
    /\ Len(DispatchH.data) > 2

\* index of the first path_ statement without a path-info argument
FirstLacking ==
    LET ss == Stmts
    IN  CHOOSE k \in 1..Len(ss) :
            LacksPathInfo(ss[k]) /\ \A j \in 1..(k - 1) : ~LacksPathInfo(ss[j])

\* C10: when every statement parses but some path_ signature has no argument
\* matching the path-info pattern, the run fails, and only in the third
\* emission: wasi_vfs_ops.h and wasi_vfs.h are complete and
\* wasi_vfs_dispatch.h ends with the header and opening brace of the first
\* such signature, after the complete functions of the signatures before it.
C10_FailsInDispatch ==
    (WellFormed /\ \E st \in {Stmts[k] : k \in 1..NumStmts} : LacksPathInfo(st)) =>
        /\ pc # "done"
        /\ pc = "failed" =>
              /\ OpsComplete
              /\ ProtoComplete
              /\ DispatchH.exists
              /\ HeaderOk(DispatchH.data)
              /\ NumBodies = FirstLacking
              /\ \A i \in 1..(NumBodies - 1) : Closed(Body(i))
              /\ Kinds(Body(NumBodies)) = <<"fn_head", "brace_open">>
              /\ Body(NumBodies)[1].fn = SName(Stmts[FirstLacking])

C10_Witness ==
    /\ WellFormed
    /\ \E st \in {Stmts[k] : k \in 1..NumStmts} : LacksPathInfo(st)
    /\ pc = "failed"
    /\ FirstLacking >= 2
    /\ NumStmts > FirstLacking

=============================================================================
